---- MODULE Spec2Model ----
(***************************************************************************)
(* mytraffic: a traffic-light kernel module (src/mytraffic.c).  One        *)
(* struct traffic_light is shared by the timer callback, two button        *)
(* interrupt handlers and the character device's read and write.           *)
(***************************************************************************)
EXTENDS Integers, Sequences, FiniteSets, TLC

\* ------------------------------------------------------------------ bounds
\* Ticks are taken while cycle_count is below this cap.
MaxCycle == 18
\* The window of the jiffies counter the model explores: 0 .. MaxJiffies.
MaxJiffies == 3
\* Timer interrupts per second of the modelled kernel (scaled down).
HZ == 4
\* In the observed runs (SpecTrace): ticks, toggle events and pedestrian events.
MaxTicks == 17
MaxToggles == 3
MaxPeds == 2
\* In the interleaved runs (SpecSMP), ticks are entered while cycle_count is
\* below this cap.
MaxSMPCycle == 6
\* In the runs that load and unload the module (SpecLoad), ticks are taken while
\* cycle_count is below this cap.
MaxLoadCycle == 7
\* In the runs across the wrap of cycle_count (SpecWrap), the ticks taken before
\* the wrap and after it.
MaxWrapTicks == 8

\* --------------------------------------------------------- program constants
INT_MAX == 2147483647
INT_MIN == (-2147483647) - 1
KBUF_SIZE == 16
EINVAL == 22
EFAULT == 14
DEBOUNCE_MS == 250
IRQ_HANDLED == 1
PED_CYCLES == 5
CYCLE_LEN == 6

NORMAL == "NORMAL"
FLASHING_RED == "FLASHING_RED"
FLASHING_YELLOW == "FLASHING_YELLOW"
Modes == {NORMAL, FLASHING_RED, FLASHING_YELLOW}

VARIABLES
    t_light,        \* the struct traffic_light (a record of its fields)
    timer_delay,    \* jiffies from arming to expiry of the timer's last arming
    jiffies,        \* the kernel's tick counter
    toggle_recent,  \* toggle_interrupt_handler's static most_recent_interrupt
    ped_recent,     \* ped_interrupt_handler's static most_recent_interrupt
    call,           \* the entry point that ran last: its bytes and its result
    obs,            \* an observer's log of a run (SpecTrace); no program state
    exec,           \* where each entry point in execution stands (SpecSMP)
    kernel          \* what the module holds of the kernel: device number, memory,
                    \* pins, interrupt lines, the timer; where init and exit stand

vars == <<t_light, timer_delay, jiffies, toggle_recent, ped_recent, call, obs, exec,
          kernel>>

\* ------------------------------------------------------------- C arithmetic
\* i++ on an int (the kernel is built with wrapping signed overflow).
IncInt(i) == IF i = INT_MAX THEN INT_MIN ELSE i + 1

\* a % n in C, n > 0: the remainder has the sign of a.
CRem(a, n) ==
    IF a >= 0 THEN a % n
    ELSE LET m == a % n IN IF m = 0 THEN 0 ELSE m - n

\* msecs_to_jiffies(m): m milliseconds in jiffies, rounded up.
msecs_to_jiffies(m) == (m * HZ + 999) \div 1000

\* now - then on unsigned long; inside the window then <= now, so no wrap.
JiffiesSince(now, then) == now - then

\* ------------------------------------------------------------ timer_callback
Lights(l, r, y, g) ==
    [l EXCEPT !.red_active = r, !.yellow_active = y, !.green_active = g]

\* lines 181-186: a tick of a crossing in progress.
CrossingStep(l) ==
    [Lights(l, TRUE, TRUE, FALSE) EXCEPT
        !.ped_cycle_count = IncInt(l.ped_cycle_count)]

\* lines 188-197: the crossing is over, back to green.
CrossingDone(l) ==
    [Lights(l, FALSE, FALSE, TRUE) EXCEPT
        !.ped_crossing = FALSE, !.ped_requested = FALSE,
        !.ped_cycle_count = 0, !.cycle_count = 0]

\* A yellow phase that leaves green as it was.
YellowPhaseGreenLeft(l) == [l EXCEPT !.red_active = FALSE, !.yellow_active = TRUE]

\* lines 203-207
YellowPhase(l) == Lights(l, FALSE, TRUE, FALSE)

\* lines 209-224: red, and a pending request starts the crossing.
RedPhase(l) ==
    IF l.ped_requested
    THEN [Lights(l, TRUE, TRUE, FALSE) EXCEPT
            !.ped_crossing = TRUE, !.ped_requested = FALSE,
            !.ped_cycle_count = 0]
    ELSE Lights(l, TRUE, FALSE, FALSE)

\* lines 226-231
GreenPhase(l) == Lights(l, FALSE, FALSE, TRUE)

\* A normal tick whose yellow phase comes one position early.
NormalTickEarlyYellow(l) ==
    IF l.ped_crossing
    THEN IF l.ped_cycle_count < PED_CYCLES THEN CrossingStep(l) ELSE CrossingDone(l)
    ELSE LET cycle_position == CRem(l.cycle_count, CYCLE_LEN) IN
         IF cycle_position = 2 THEN YellowPhase(l)
         ELSE IF cycle_position = 4 \/ cycle_position = 5 THEN RedPhase(l)
         ELSE GreenPhase(l)

\* A normal tick whose crossing test is <= instead of <.
NormalTickLongCrossing(l) ==
    IF l.ped_crossing
    THEN IF l.ped_cycle_count <= PED_CYCLES THEN CrossingStep(l) ELSE CrossingDone(l)
    ELSE LET cycle_position == CRem(l.cycle_count, CYCLE_LEN) IN
         IF cycle_position = 3 THEN YellowPhase(l)
         ELSE IF cycle_position = 4 \/ cycle_position = 5 THEN RedPhase(l)
         ELSE GreenPhase(l)

\* lines 177-233: case NORMAL, l.cycle_count already incremented.
NormalTick(l) ==
    IF l.ped_crossing
    THEN IF l.ped_cycle_count < PED_CYCLES THEN CrossingStep(l) ELSE CrossingDone(l)
    ELSE LET cycle_position == CRem(l.cycle_count, CYCLE_LEN) IN
         IF cycle_position = 3 THEN YellowPhase(l)
         ELSE IF cycle_position = 4 \/ cycle_position = 5 THEN RedPhase(l)
         ELSE GreenPhase(l)

\* lines 235-239
FlashingRedTick(l) == Lights(l, CRem(l.cycle_count, 2) = 1, FALSE, FALSE)

\* lines 241-245
FlashingYellowTick(l) == Lights(l, FALSE, CRem(l.cycle_count, 2) = 1, FALSE)

\* lines 174-247: the state after one tick.
timer_callback(l) ==
    LET c == [l EXCEPT !.cycle_count = IncInt(l.cycle_count)] IN
    CASE c.current_mode = NORMAL -> NormalTick(c)
      [] c.current_mode = FLASHING_RED -> FlashingRedTick(c)
      [] c.current_mode = FLASHING_YELLOW -> FlashingYellowTick(c)

\* line 254: the delay the timer is re-armed with.
RearmDelay(l) == HZ \div l.rate

\* -------------------------------------------------- toggle_interrupt_handler
\* lines 265-267: the debounce test both handlers make.
Debounced(now, recent) == JiffiesSince(now, recent) < msecs_to_jiffies(DEBOUNCE_MS)

\* lines 270-284
NextMode(m) ==
    CASE m = NORMAL -> FLASHING_RED
      [] m = FLASHING_RED -> FLASHING_YELLOW
      [] m = FLASHING_YELLOW -> NORMAL

\* An accepted toggle without the reset of line 285.
ToggleAcceptedNoReset(l) == [l EXCEPT !.current_mode = NextMode(l.current_mode)]

\* An accepted toggle that also drops the pedestrian request and crossing.
ToggleAcceptedDropsPed(l) ==
    [l EXCEPT !.current_mode = NextMode(l.current_mode), !.cycle_count = 0,
              !.ped_requested = FALSE, !.ped_crossing = FALSE]

\* lines 270-285: an accepted toggle.
ToggleAccepted(l) ==
    [l EXCEPT !.current_mode = NextMode(l.current_mode), !.cycle_count = 0]

\* lines 301-304: an accepted pedestrian button press.
PedAccepted(l) ==
    IF l.current_mode = NORMAL THEN [l EXCEPT !.ped_requested = TRUE] ELSE l

\* ----------------------------------------------------------- mytraffic_write
WhiteSpace == {" ", "\n", "\t"}
DigitChars == {"0", "1", "2", "3", "4", "5", "6", "7", "8", "9"}

DigitVal(ch) ==
    CASE ch = "0" -> 0 [] ch = "1" -> 1 [] ch = "2" -> 2 [] ch = "3" -> 3
      [] ch = "4" -> 4 [] ch = "5" -> 5 [] ch = "6" -> 6 [] ch = "7" -> 7
      [] ch = "8" -> 8 [] ch = "9" -> 9

CharAt(s, i) == SubSeq(s, i, i)

\* The index of the first character of s, from i on, that is no white space.
RECURSIVE SkipSpaces(_, _)
SkipSpaces(s, i) ==
    IF i <= Len(s) /\ CharAt(s, i) \in WhiteSpace THEN SkipSpaces(s, i + 1) ELSE i

\* The index after the run of digits of s that starts at i.
RECURSIVE DigitsEnd(_, _)
DigitsEnd(s, i) ==
    IF i <= Len(s) /\ CharAt(s, i) \in DigitChars THEN DigitsEnd(s, i + 1) ELSE i

\* The digits s[i..j-1] as an unsigned int: the decimal value modulo 2^32, kept
\* as two 16-bit halves <<high, low>> (the conversion stores the 64-bit value it
\* read into an unsigned int).
RECURSIVE ToUint(_, _, _, _)
ToUint(s, i, j, acc) ==
    IF i >= j THEN acc
    ELSE LET low == acc[2] * 10 + DigitVal(CharAt(s, i))
             high == acc[1] * 10 + (low \div 65536)
         IN ToUint(s, i + 1, j, <<high % 65536, low % 65536>>)

\* line 158: sscanf(kbuf, "%u", &new_rate): white space is skipped, then at least
\* one digit must follow; what comes after the digits is not looked at.
Sscanf(kbuf) ==
    LET from == SkipSpaces(kbuf, 1)
        to == DigitsEnd(kbuf, from)
    IN [matched |-> to > from, value |-> ToUint(kbuf, from, to, <<0, 0>>)]

\* line 159: new_rate >= 1 && new_rate <= 9
RateValid(v) == v[1] = 0 /\ v[2] >= 1 /\ v[2] <= 9

\* lines 151-164: the state after a write of buf; fault: copy_from_user fails.
WriteState(l, buf, fault) ==
    LET parsed == Sscanf(buf) IN
    IF Len(buf) >= KBUF_SIZE \/ fault THEN l
    ELSE IF parsed.matched /\ RateValid(parsed.value)
         THEN [l EXCEPT !.rate = parsed.value[2]]
         ELSE l

\* A write without the length test of line 151.
WriteReturnAnyLength(buf, fault) == IF fault THEN -EFAULT ELSE Len(buf)

\* lines 151-164: what the write returns.
WriteReturn(buf, fault) ==
    IF Len(buf) >= KBUF_SIZE THEN -EINVAL
    ELSE IF fault THEN -EFAULT
    ELSE Len(buf)

\* ------------------------------------------------------------ mytraffic_read
OnOff(b) == IF b THEN "on" ELSE "off"

ModeName(m) ==
    IF m = NORMAL THEN "normal"
    ELSE IF m = FLASHING_RED THEN "flashing-red" ELSE "flashing-yellow"

\* A status text whose pedestrian field looks at ped_requested alone.
StatusTextRequestedOnly(l) ==
    "Mode: " \o ModeName(l.current_mode) \o "\n"
    \o "Cycle Rate: " \o ToString(l.rate) \o " Hz\n"
    \o "Lights: red " \o OnOff(l.red_active) \o ", yellow " \o OnOff(l.yellow_active)
    \o ", green " \o OnOff(l.green_active) \o "\n"
    \o "Pedestrian: " \o (IF l.ped_requested THEN "present" ELSE "not present") \o "\n"

\* lines 110-123: the status text.
StatusText(l) ==
    "Mode: " \o ModeName(l.current_mode) \o "\n"
    \o "Cycle Rate: " \o ToString(l.rate) \o " Hz\n"
    \o "Lights: red " \o OnOff(l.red_active) \o ", yellow " \o OnOff(l.yellow_active)
    \o ", green " \o OnOff(l.green_active) \o "\n"
    \o "Pedestrian: "
    \o (IF l.ped_requested \/ l.ped_crossing THEN "present" ELSE "not present") \o "\n"

\* lines 126-133: the number of bytes a read at f_pos of count bytes transfers.
ReadCount(len, f_pos, count) ==
    IF f_pos >= len THEN 0
    ELSE IF count > len - f_pos THEN len - f_pos ELSE count

\* ------------------------------------------------------------- mytraffic_init
\* What kmalloc's memory may hold in a field that init never assigns.
Uninitialized == {-1, 0, 7}

\* lines 331-338 and 371: the fields init assigns; ped_cycle_count is not one.
InitLight(garbage) ==
    [current_mode |-> NORMAL, cycle_count |-> 0, ped_cycle_count |-> garbage,
     rate |-> 1, red_active |-> FALSE, yellow_active |-> FALSE,
     green_active |-> TRUE, ped_requested |-> FALSE, ped_crossing |-> FALSE]

Returned(fn, buf, ret) == [fn |-> fn, buf |-> buf, ret |-> ret]

\* lines 249-251: the values the three output pins are driven to.
Pins(l) == [red |-> l.red_active, yellow |-> l.yellow_active, green |-> l.green_active]

\* What mytraffic_init acquires, in the order it does (lines 315-404).
Resources ==
    <<"chrdev", "t_light", "RED", "YELLOW", "GREEN", "TOGGLE_BTN", "irq_toggle",
      "PED_BTN", "irq_ped">>

\* The module before mytraffic_init runs. pc: init, live (init returned 0),
\* failed (init returned an error), exit, gone; at: the step of init or exit to
\* run next; held: what was acquired, in order; released: what was given back,
\* in order; irqs: the interrupt lines whose handler is registered; timer: off
\* or pending; callback: timer_callback is in execution; pins: the output pins;
\* result: what init returned (none, zero, negative); denied: the requests
\* that failed.
Unloaded ==
    [pc |-> "init", at |-> 1, held |-> <<>>, released |-> <<>>, irqs |-> {},
     timer |-> "off", callback |-> FALSE,
     pins |-> [red |-> FALSE, yellow |-> FALSE, green |-> FALSE],
     result |-> "none", denied |-> {}]

\* The module when mytraffic_init has returned 0 with every request granted.
Loaded ==
    [Unloaded EXCEPT
        !.pc = "live", !.at = 0, !.held = Resources,
        !.irqs = {"irq_toggle", "irq_ped"}, !.timer = "pending",
        !.pins = [red |-> FALSE, yellow |-> FALSE, green |-> TRUE],
        !.result = "zero"]

\* The observer's log: ticks taken; the toggle events delivered, each with its
\* time and the mode it left; pedestrian events delivered; and, while no toggle
\* event has been delivered: pending, a request accepted during a green or a
\* yellow phase is waiting; cross_age, the ticks since the tick that began the
\* crossing in progress (-1: none); crossed, a crossing that such a request
\* began has completed.
NoObs ==
    [ticks |-> 0, toggle_log |-> <<>>, peds |-> 0, pending |-> FALSE,
     cross_age |-> -1, crossed |-> FALSE]

\* No entry point is in execution. tick, read, toggle: the source line each
\* stands at; pos: timer_callback's local cycle_position; snap: the fields
\* mytraffic_read has read so far.
Idle ==
    [tick |-> "idle", pos |-> 0, read |-> "idle", snap |-> InitLight(0),
     toggle |-> "idle"]

\* The state when mytraffic_init has returned 0: the timer is armed (line 412)
\* and both handlers' static timestamps are 0 (lines 263, 294).
Init ==
    /\ \E g \in Uninitialized : t_light = InitLight(g)
    /\ timer_delay = 1
    /\ jiffies \in 0..MaxJiffies
    /\ toggle_recent = 0
    /\ ped_recent = 0
    /\ call = Returned("mytraffic_init", "", 0)
    /\ obs = NoObs
    /\ exec = Idle
    /\ kernel = Loaded

\* ------------------------------------------------------------------- actions
\* The timer expires: timer_callback runs and re-arms the timer.
TickStep ==
    /\ t_light.cycle_count < MaxCycle
    /\ t_light' = timer_callback(t_light)
    /\ timer_delay' = RearmDelay(t_light')
    /\ call' = Returned("timer_callback", "", 0)
    /\ kernel' = [kernel EXCEPT !.pins = Pins(t_light')]
    /\ UNCHANGED <<jiffies, toggle_recent, ped_recent>>

\* A rising edge of the toggle button: toggle_interrupt_handler.
ToggleStep ==
    /\ IF Debounced(jiffies, toggle_recent)
       THEN UNCHANGED <<t_light, toggle_recent>>
       ELSE /\ toggle_recent' = jiffies
            /\ t_light' = ToggleAccepted(t_light)
    /\ call' = Returned("toggle_interrupt_handler", "", IRQ_HANDLED)
    /\ UNCHANGED <<timer_delay, jiffies, ped_recent, kernel>>

\* A rising edge of the pedestrian button: ped_interrupt_handler.
PedStep ==
    /\ IF Debounced(jiffies, ped_recent)
       THEN UNCHANGED <<t_light, ped_recent>>
       ELSE /\ ped_recent' = jiffies
            /\ t_light' = PedAccepted(t_light)
    /\ call' = Returned("ped_interrupt_handler", "", IRQ_HANDLED)
    /\ UNCHANGED <<timer_delay, jiffies, toggle_recent, kernel>>

\* write(2) on the device, of one of the texts `inputs`.
WriteStep(inputs, faults) ==
    \E buf \in inputs, fault \in faults :
        /\ t_light' = WriteState(t_light, buf, fault)
        /\ call' = Returned("mytraffic_write", buf, WriteReturn(buf, fault))
        /\ UNCHANGED <<timer_delay, jiffies, toggle_recent, ped_recent, kernel>>

\* read(2) on the device: the bytes transferred and the count returned.
ReadStep(offsets, counts, faults) ==
    \E f_pos \in offsets, count \in counts, fault \in faults :
        LET kbuf == StatusText(t_light)
            n == ReadCount(Len(kbuf), f_pos, count)
        IN /\ call' = IF f_pos >= Len(kbuf) THEN Returned("mytraffic_read", "", 0)
                      ELSE IF fault THEN Returned("mytraffic_read", "", -EFAULT)
                      ELSE Returned("mytraffic_read", SubSeq(kbuf, f_pos + 1, f_pos + n), n)
           /\ UNCHANGED <<t_light, timer_delay, jiffies, toggle_recent, ped_recent,
                          kernel>>

\* The kernel's clock advances by one jiffy.
JiffyStep ==
    /\ jiffies < MaxJiffies
    /\ jiffies' = jiffies + 1
    /\ UNCHANGED <<t_light, timer_delay, toggle_recent, ped_recent, call, kernel>>

\* ---------------------------------------------------------------------- Spec
\* Every entry point runs to completion; the system calls carry few inputs.
CoreWrites == {"5", "9\n", "0"}

Tick == TickStep /\ UNCHANGED <<obs, exec>>
Toggle == ToggleStep /\ UNCHANGED <<obs, exec>>
Ped == PedStep /\ UNCHANGED <<obs, exec>>
Write == WriteStep(CoreWrites, {FALSE}) /\ UNCHANGED <<obs, exec>>
Read == ReadStep({0}, {0, 256}, {FALSE}) /\ UNCHANGED <<obs, exec>>
Jiffy == JiffyStep /\ UNCHANGED <<obs, exec>>

Next == Tick \/ Toggle \/ Ped \/ Write \/ Read \/ Jiffy

Spec == Init /\ [][Next]_vars

\* ----------------------------------------------------------------- SpecTrace
\* The same entry points, run to completion, with the observer's log kept.
GreenOnly(l) == ~l.red_active /\ ~l.yellow_active /\ l.green_active
YellowOnly(l) == ~l.red_active /\ l.yellow_active /\ ~l.green_active
RedOnly(l) == l.red_active /\ ~l.yellow_active /\ ~l.green_active
RedYellow(l) == l.red_active /\ l.yellow_active /\ ~l.green_active
AllOff(l) == ~l.red_active /\ ~l.yellow_active /\ ~l.green_active

Undisturbed == obs.toggle_log = <<>>

TickObs ==
    /\ obs.ticks < MaxTicks
    /\ TickStep
    /\ UNCHANGED exec
    /\ LET begins == ~t_light.ped_crossing /\ t_light'.ped_crossing
           ends == t_light.ped_crossing /\ ~t_light'.ped_crossing
       IN obs' = IF ~Undisturbed THEN [obs EXCEPT !.ticks = @ + 1]
                 ELSE [obs EXCEPT
                         !.ticks = @ + 1,
                         !.pending = @ /\ ~begins,
                         !.cross_age = IF begins THEN 0
                                       ELSE IF ends \/ @ < 0 THEN -1 ELSE @ + 1,
                         !.crossed = @ \/ (ends /\ obs.cross_age >= 0)]

ToggleObs ==
    /\ Len(obs.toggle_log) < MaxToggles
    /\ ToggleStep
    /\ UNCHANGED exec
    /\ obs' = [obs EXCEPT
                 !.toggle_log = Append(@, [at |-> jiffies,
                                           mode |-> t_light'.current_mode]),
                 !.pending = FALSE, !.cross_age = -1, !.crossed = FALSE]

PedObs ==
    /\ obs.peds < MaxPeds
    /\ PedStep
    /\ UNCHANGED exec
    /\ obs' = [obs EXCEPT
                 !.peds = @ + 1,
                 !.pending = @ \/ (/\ Undisturbed
                                   /\ ~Debounced(jiffies, ped_recent)
                                   /\ ~t_light.ped_crossing
                                   /\ GreenOnly(t_light) \/ YellowOnly(t_light))]

JiffyObs == JiffyStep /\ UNCHANGED <<obs, exec>>

NextTrace == TickObs \/ ToggleObs \/ PedObs \/ JiffyObs

SpecTrace == Init /\ [][NextTrace]_vars

\* -------------------------------------------------------------------- SpecIO
\* The device's system calls with their inputs at large, between ticks.
WriteInputs ==
    {"5", "0", "10", "abc", "9\n", " 3x", "", "-1", "4294967301",
     "000000000000007", "0000000000000007", "abcdefghijklmnop"}
ReadOffsets == {0, 13, 200}
ReadCounts == {0, 1, 256}

TickIO == TickStep /\ UNCHANGED <<obs, exec>>
WriteIO == WriteStep(WriteInputs, BOOLEAN) /\ UNCHANGED <<obs, exec>>
ReadIO == ReadStep(ReadOffsets, ReadCounts, BOOLEAN) /\ UNCHANGED <<obs, exec>>

NextIO == TickIO \/ WriteIO \/ ReadIO

SpecIO == Init /\ [][NextIO]_vars

\* ------------------------------------------------------------------- SpecSMP
\* The code takes no lock and masks no interrupt: the timer callback (softirq),
\* the button handlers (hard interrupts) and read (process context) interleave
\* at each access to the struct.

\* lines 174-247 one access at a time: the struct, the line to run next and the
\* local cycle_position after the access at line pc.
At(l, pc, pos) == [l |-> l, pc |-> pc, pos |-> pos]

TickAt(pc, l, pos) ==
    CASE pc = "176" ->
            At(l, CASE l.current_mode = NORMAL -> "179"
                    [] l.current_mode = FLASHING_RED -> "236"
                    [] l.current_mode = FLASHING_YELLOW -> "242", pos)
      [] pc = "179" -> At(l, IF l.ped_crossing THEN "181" ELSE "200", pos)
      [] pc = "181" -> At(l, IF l.ped_cycle_count < PED_CYCLES THEN "182" ELSE "189", pos)
      [] pc = "182" -> At([l EXCEPT !.red_active = TRUE], "183", pos)
      [] pc = "183" -> At([l EXCEPT !.yellow_active = TRUE], "184", pos)
      [] pc = "184" -> At([l EXCEPT !.green_active = FALSE], "185", pos)
      [] pc = "185" -> At([l EXCEPT !.ped_cycle_count = IncInt(@)], "254", pos)
      [] pc = "189" -> At([l EXCEPT !.ped_crossing = FALSE], "190", pos)
      [] pc = "190" -> At([l EXCEPT !.ped_requested = FALSE], "191", pos)
      [] pc = "191" -> At([l EXCEPT !.ped_cycle_count = 0], "192", pos)
      [] pc = "192" -> At([l EXCEPT !.cycle_count = 0], "194", pos)
      [] pc = "194" -> At([l EXCEPT !.red_active = FALSE], "195", pos)
      [] pc = "195" -> At([l EXCEPT !.yellow_active = FALSE], "196", pos)
      [] pc = "196" -> At([l EXCEPT !.green_active = TRUE], "254", pos)
      [] pc = "200" ->
            LET cycle_position == CRem(l.cycle_count, CYCLE_LEN) IN
            At(l, IF cycle_position = 3 THEN "205"
                  ELSE IF cycle_position = 4 \/ cycle_position = 5 THEN "211"
                  ELSE "228", cycle_position)
      [] pc = "205" -> At([l EXCEPT !.red_active = FALSE], "206", pos)
      [] pc = "206" -> At([l EXCEPT !.yellow_active = TRUE], "207", pos)
      [] pc = "207" -> At([l EXCEPT !.green_active = FALSE], "254", pos)
      [] pc = "211" -> At([l EXCEPT !.red_active = TRUE], "212", pos)
      [] pc = "212" -> At([l EXCEPT !.yellow_active = FALSE], "213", pos)
      [] pc = "213" -> At([l EXCEPT !.green_active = FALSE], "215", pos)
      [] pc = "215" -> At(l, IF l.ped_requested THEN "217" ELSE "254", pos)
      [] pc = "217" -> At([l EXCEPT !.ped_crossing = TRUE], "218", pos)
      [] pc = "218" -> At([l EXCEPT !.ped_requested = FALSE], "219", pos)
      [] pc = "219" -> At([l EXCEPT !.ped_cycle_count = 0], "222", pos)
      [] pc = "222" -> At([l EXCEPT !.yellow_active = TRUE], "254", pos)
      [] pc = "228" -> At([l EXCEPT !.red_active = FALSE], "229", pos)
      [] pc = "229" -> At([l EXCEPT !.yellow_active = FALSE], "230", pos)
      [] pc = "230" -> At([l EXCEPT !.green_active = TRUE], "254", pos)
      [] pc = "236" -> At([l EXCEPT !.red_active = (CRem(l.cycle_count, 2) = 1)], "237", pos)
      [] pc = "237" -> At([l EXCEPT !.yellow_active = FALSE], "238", pos)
      [] pc = "238" -> At([l EXCEPT !.green_active = FALSE], "254", pos)
      [] pc = "242" -> At([l EXCEPT !.red_active = FALSE], "243", pos)
      [] pc = "243" -> At([l EXCEPT !.yellow_active = (CRem(l.cycle_count, 2) = 1)], "244", pos)
      [] pc = "244" -> At([l EXCEPT !.green_active = FALSE], "254", pos)

\* lines 110-123 one field at a time: the fields read so far and the line to
\* run next.
ReadAt(pc, l, snap) ==
    CASE pc = "112" -> [snap |-> [snap EXCEPT !.current_mode = l.current_mode], pc |-> "115"]
      [] pc = "115" -> [snap |-> [snap EXCEPT !.rate = l.rate], pc |-> "118"]
      [] pc = "118" -> [snap |-> [snap EXCEPT !.red_active = l.red_active], pc |-> "119"]
      [] pc = "119" -> [snap |-> [snap EXCEPT !.yellow_active = l.yellow_active], pc |-> "120"]
      [] pc = "120" -> [snap |-> [snap EXCEPT !.green_active = l.green_active], pc |-> "123"]
      [] pc = "123" -> [snap |-> [snap EXCEPT !.ped_requested = l.ped_requested],
                        pc |-> IF l.ped_requested THEN "126" ELSE "123b"]
      [] pc = "123b" -> [snap |-> [snap EXCEPT !.ped_crossing = l.ped_crossing], pc |-> "126"]

\* The timer expires: line 174.
TickEnter ==
    /\ exec.tick = "idle"
    /\ t_light.cycle_count < MaxSMPCycle
    /\ t_light' = [t_light EXCEPT !.cycle_count = IncInt(@)]
    /\ exec' = [exec EXCEPT !.tick = "176"]
    /\ UNCHANGED <<timer_delay, jiffies, toggle_recent, ped_recent, call, obs, kernel>>

\* The callback's next access, lines 176-247.
TickRun ==
    /\ exec.tick \notin {"idle", "254"}
    /\ LET next == TickAt(exec.tick, t_light, exec.pos) IN
         /\ t_light' = next.l
         /\ exec' = [exec EXCEPT !.tick = next.pc, !.pos = next.pos]
    /\ UNCHANGED <<timer_delay, jiffies, toggle_recent, ped_recent, call, obs, kernel>>

\* Lines 249-254: the callback re-arms the timer and returns.
TickReturn ==
    /\ exec.tick = "254"
    /\ timer_delay' = RearmDelay(t_light)
    /\ call' = Returned("timer_callback", "", 0)
    /\ exec' = [exec EXCEPT !.tick = "idle", !.pos = 0]
    /\ kernel' = [kernel EXCEPT !.pins = Pins(t_light)]
    /\ UNCHANGED <<t_light, jiffies, toggle_recent, ped_recent, obs>>

\* The toggle handler up to line 284: on any CPU, at any moment.
ToggleEnter ==
    /\ exec.toggle = "idle"
    /\ IF Debounced(jiffies, toggle_recent)
       THEN /\ call' = Returned("toggle_interrupt_handler", "", IRQ_HANDLED)
            /\ UNCHANGED <<t_light, toggle_recent, exec>>
       ELSE /\ toggle_recent' = jiffies
            /\ t_light' = [t_light EXCEPT !.current_mode = NextMode(@)]
            /\ exec' = [exec EXCEPT !.toggle = "285"]
            /\ UNCHANGED call
    /\ UNCHANGED <<timer_delay, jiffies, ped_recent, obs, kernel>>

\* Lines 285-286 of the toggle handler.
ToggleReturn ==
    /\ exec.toggle = "285"
    /\ t_light' = [t_light EXCEPT !.cycle_count = 0]
    /\ call' = Returned("toggle_interrupt_handler", "", IRQ_HANDLED)
    /\ exec' = [exec EXCEPT !.toggle = "idle"]
    /\ UNCHANGED <<timer_delay, jiffies, toggle_recent, ped_recent, obs, kernel>>

\* The pedestrian handler makes one access to the struct.
PedSMP == PedStep /\ UNCHANGED <<obs, exec>>

\* read(2) is entered.
ReadEnter ==
    /\ exec.read = "idle"
    /\ exec' = [exec EXCEPT !.read = "112"]
    /\ UNCHANGED <<t_light, timer_delay, jiffies, toggle_recent, ped_recent, call, obs,
                   kernel>>

\* read's next field, lines 110-123.
ReadRun ==
    /\ exec.read \notin {"idle", "126"}
    /\ LET next == ReadAt(exec.read, t_light, exec.snap) IN
         exec' = [exec EXCEPT !.read = next.pc, !.snap = next.snap]
    /\ UNCHANGED <<t_light, timer_delay, jiffies, toggle_recent, ped_recent, call, obs,
                   kernel>>

\* Lines 126-142, for a read of the whole text: the text goes to the caller.
ReadReturn ==
    /\ exec.read = "126"
    /\ call' = Returned("mytraffic_read", StatusText(exec.snap), Len(StatusText(exec.snap)))
    /\ exec' = [exec EXCEPT !.read = "idle", !.snap = InitLight(0)]
    /\ UNCHANGED <<t_light, timer_delay, jiffies, toggle_recent, ped_recent, obs, kernel>>

NextSMP ==
    \/ TickEnter \/ TickRun \/ TickReturn
    \/ ToggleEnter \/ ToggleReturn \/ PedSMP
    \/ ReadEnter \/ ReadRun \/ ReadReturn

SpecSMP == Init /\ [][NextSMP]_vars

\* ------------------------------------------------------------------ SpecLoad
\* The module is loaded and unloaded: mytraffic_init one request at a time,
\* each of which the kernel may refuse, then the timer and the registered
\* interrupts at work, then mytraffic_exit one release at a time.

\* lines 315-408: the requests of mytraffic_init in order. line: where it is
\* made; res: what it asks for; unwind: what the code releases, in order, when
\* it is refused; checked: the code looks at its result.
InitPlan ==
    <<[line |-> 315, res |-> "chrdev", checked |-> TRUE, unwind |-> <<>>],
      [line |-> 323, res |-> "t_light", checked |-> TRUE, unwind |-> <<"chrdev">>],
      [line |-> 341, res |-> "RED", checked |-> TRUE,
       unwind |-> <<"t_light", "chrdev">>],
      [line |-> 350, res |-> "YELLOW", checked |-> TRUE,
       unwind |-> <<"RED", "t_light", "chrdev">>],
      [line |-> 360, res |-> "GREEN", checked |-> TRUE,
       unwind |-> <<"YELLOW", "RED", "t_light", "chrdev">>],
      [line |-> 373, res |-> "TOGGLE_BTN", checked |-> TRUE,
       unwind |-> <<"GREEN", "YELLOW", "RED", "t_light", "chrdev">>],
      [line |-> 387, res |-> "irq_toggle", checked |-> FALSE, unwind |-> <<>>],
      [line |-> 393, res |-> "PED_BTN", checked |-> TRUE,
       unwind |-> <<"GREEN", "YELLOW", "RED", "TOGGLE_BTN", "t_light", "chrdev">>],
      [line |-> 404, res |-> "irq_ped", checked |-> FALSE, unwind |-> <<>>]>>

\* The module after the request `step` was granted. A granted request_irq
\* registers the handler; gpio_direction_output drives the pin (lines 348, 358,
\* 369).
Granted(k, step) ==
    LET pins == IF step.res = "GREEN" THEN [k.pins EXCEPT !.green = TRUE]
                ELSE IF step.res = "RED" THEN [k.pins EXCEPT !.red = FALSE]
                ELSE IF step.res = "YELLOW" THEN [k.pins EXCEPT !.yellow = FALSE]
                ELSE k.pins
    IN [k EXCEPT !.held = Append(@, step.res), !.at = @ + 1, !.pins = pins,
                 !.irqs = IF step.res \in {"irq_toggle", "irq_ped"}
                          THEN @ \cup {step.res} ELSE @]

\* The module after the request `step` was refused: where the result is looked
\* at, the code releases step.unwind and returns it; where it is not (lines
\* 387-393: overwritten; 404-408: never read), init goes on.
Refused(k, step) ==
    IF step.checked
    THEN [k EXCEPT !.denied = @ \cup {step.res}, !.released = @ \o step.unwind,
                   !.pc = "failed", !.result = "negative"]
    ELSE [k EXCEPT !.denied = @ \cup {step.res}, !.at = @ + 1]

\* The state before mytraffic_init. t_light has from the start the contents
\* that kmalloc's memory and lines 331-338 and 371 give it; no code reads the
\* struct before kernel.held has it.
InitLoad ==
    /\ \E g \in Uninitialized : t_light = InitLight(g)
    /\ timer_delay = 0
    /\ jiffies \in 0..MaxJiffies
    /\ toggle_recent = 0
    /\ ped_recent = 0
    /\ call = Returned("mytraffic_init", "", 0)
    /\ obs = NoObs
    /\ exec = Idle
    /\ kernel = Unloaded

\* mytraffic_init makes its next request.
InitRequest ==
    /\ kernel.pc = "init" /\ kernel.at <= Len(InitPlan)
    /\ \E granted \in BOOLEAN :
         kernel' = IF granted THEN Granted(kernel, InitPlan[kernel.at])
                   ELSE Refused(kernel, InitPlan[kernel.at])
    /\ UNCHANGED <<t_light, timer_delay, jiffies, toggle_recent, ped_recent, call, obs,
                   exec>>

\* lines 411-415: the timer is armed one jiffy ahead and init returns 0.
InitReturn ==
    /\ kernel.pc = "init" /\ kernel.at = Len(InitPlan) + 1
    /\ kernel' = [kernel EXCEPT !.pc = "live", !.at = 0, !.timer = "pending",
                                !.result = "zero"]
    /\ timer_delay' = t_light.rate
    /\ UNCHANGED <<t_light, jiffies, toggle_recent, ped_recent, call, obs, exec>>

\* The pending timer expires: timer_callback up to line 251.
LoadTickBegin ==
    /\ kernel.timer = "pending" /\ ~kernel.callback
    /\ t_light.cycle_count < MaxLoadCycle
    /\ t_light' = timer_callback(t_light)
    /\ kernel' = [kernel EXCEPT !.timer = "off", !.callback = TRUE,
                                !.pins = Pins(t_light')]
    /\ call' = Returned("timer_callback", "", 0)
    /\ UNCHANGED <<timer_delay, jiffies, toggle_recent, ped_recent, obs, exec>>

\* line 254: the callback re-arms the timer and returns.
LoadTickRearm ==
    /\ kernel.callback
    /\ kernel' = [kernel EXCEPT !.timer = "pending", !.callback = FALSE]
    /\ timer_delay' = RearmDelay(t_light)
    /\ UNCHANGED <<t_light, jiffies, toggle_recent, ped_recent, call, obs, exec>>

\* The buttons, while their handlers are registered.
LoadToggle == "irq_toggle" \in kernel.irqs /\ ToggleStep /\ UNCHANGED <<obs, exec>>
LoadPed == "irq_ped" \in kernel.irqs /\ PedStep /\ UNCHANGED <<obs, exec>>

\* del_timer_sync returns once the callback is not in execution.
TimerCallbackIgnored(k) == TRUE

\* line 423: del_timer_sync waits for a callback in execution to return.
TimerCallbackOver(k) == ~k.callback

\* lines 423-448: mytraffic_exit after its step number `at`.
ExitAt(k, at) ==
    CASE at = 1 -> [k EXCEPT !.timer = "off"]
      [] at = 2 -> [k EXCEPT !.irqs = @ \ {"irq_toggle"},
                             !.released = Append(@, "irq_toggle")]
      [] at = 3 -> [k EXCEPT !.irqs = @ \ {"irq_ped"},
                             !.released = Append(@, "irq_ped")]
      [] at = 4 -> [k EXCEPT !.pins = [red |-> FALSE, yellow |-> FALSE,
                                       green |-> FALSE]]
      [] at = 5 -> [k EXCEPT !.released =
                        @ \o <<"TOGGLE_BTN", "PED_BTN", "RED", "YELLOW", "GREEN">>]
      [] at = 6 -> [k EXCEPT !.released = Append(@, "t_light")]
      [] at = 7 -> [k EXCEPT !.released = Append(@, "chrdev"), !.pc = "gone"]

\* The module is removed: mytraffic_exit is entered.
ExitEnter ==
    /\ kernel.pc = "live"
    /\ kernel' = [kernel EXCEPT !.pc = "exit", !.at = 1]
    /\ UNCHANGED <<t_light, timer_delay, jiffies, toggle_recent, ped_recent, call, obs,
                   exec>>

\* mytraffic_exit's next step.
ExitRun ==
    /\ kernel.pc = "exit"
    /\ kernel.at = 1 => TimerCallbackOver(kernel)
    /\ kernel' = [ExitAt(kernel, kernel.at) EXCEPT !.at = @ + 1]
    /\ call' = Returned("mytraffic_exit", "", 0)
    /\ UNCHANGED <<t_light, timer_delay, jiffies, toggle_recent, ped_recent, obs, exec>>

JiffyLoad == JiffyStep /\ UNCHANGED <<obs, exec>>

NextLoad ==
    \/ InitRequest \/ InitReturn
    \/ LoadTickBegin \/ LoadTickRearm \/ LoadToggle \/ LoadPed
    \/ ExitEnter \/ ExitRun \/ JiffyLoad

SpecLoad == InitLoad /\ [][NextLoad]_vars

\* ------------------------------------------------------------------ SpecWrap
\* The ticks around the wrap of cycle_count: 2^31 ticks after the last reset,
\* with no toggle event and no crossing since.

\* The struct after the tick that brought cycle_count to c in mode m.
WrapLight(m, c, garbage) ==
    timer_callback([InitLight(garbage) EXCEPT !.current_mode = m,
                                              !.cycle_count = c - 1])

InitWrap ==
    /\ \E m \in Modes, k \in 0..MaxWrapTicks, g \in Uninitialized :
         t_light = WrapLight(m, INT_MAX - k, g)
    /\ timer_delay = RearmDelay(t_light)
    /\ jiffies \in 0..MaxJiffies
    /\ toggle_recent = 0
    /\ ped_recent = 0
    /\ call = Returned("timer_callback", "", 0)
    /\ obs = NoObs
    /\ exec = Idle
    /\ kernel = [Loaded EXCEPT !.pins = Pins(t_light)]

\* The timer expires: timer_callback runs and re-arms the timer.
TickWrap ==
    /\ \/ t_light.cycle_count >= INT_MAX - MaxWrapTicks
       \/ t_light.cycle_count < INT_MIN + MaxWrapTicks
    /\ t_light' = timer_callback(t_light)
    /\ timer_delay' = RearmDelay(t_light')
    /\ call' = Returned("timer_callback", "", 0)
    /\ kernel' = [kernel EXCEPT !.pins = Pins(t_light')]
    /\ UNCHANGED <<jiffies, toggle_recent, ped_recent, obs, exec>>

NextWrap == TickWrap

SpecWrap == InitWrap /\ [][NextWrap]_vars

\* -------------------------------------------------------------------- claims
Shown(l) ==
    CASE GreenOnly(l) -> "green"
      [] YellowOnly(l) -> "yellow"
      [] RedOnly(l) -> "red"
      [] RedYellow(l) -> "red+yellow"
      [] AllOff(l) -> "off"
      [] OTHER -> "invalid"

\* C1 (Spec): in every state reachable by ticks, toggle and pedestrian events,
\* rate writes and status reads, each run to completion, the outputs are all off,
\* yellow only, red only, green only or red+yellow; never red+green,
\* yellow+green or all three.
C1_OutputsValid == Shown(t_light) # "invalid"

\* C1 witness: a crossing in progress shows red+yellow.
C1_Witness == t_light.ped_crossing /\ RedYellow(t_light) /\ call.fn = "mytraffic_read"

\* C2 as stated (SpecTrace): from the fresh state, with no toggle event and no
\* pedestrian request, ticks 1 to 6 produce green, green, green, yellow, red, red
\* and ticks 7 to 12 the same again.
C2_AsStated ==
    (Undisturbed /\ obs.peds = 0 /\ obs.ticks \in 1..12) =>
        Shown(t_light) = <<"green", "green", "green", "yellow", "red", "red",
                           "green", "green", "green", "yellow", "red", "red">>[obs.ticks]

\* C2 amended (SpecTrace): from the fresh state, which shows green, with no toggle
\* event and no pedestrian request, ticks 1 to 6 produce green, green, yellow,
\* red, red, green (the phases shown, the fresh one first, are green, green,
\* green, yellow, red, red) and ticks 7 to 12 produce the same sequence again.
C2_PhaseSequence ==
    /\ (Undisturbed /\ obs.peds = 0 /\ obs.ticks = 0) => Shown(t_light) = "green"
    /\ (Undisturbed /\ obs.peds = 0 /\ obs.ticks \in 1..12) =>
        Shown(t_light) = <<"green", "green", "yellow", "red", "red", "green",
                           "green", "green", "yellow", "red", "red", "green">>[obs.ticks]

\* C2 witness: twelve ticks were taken and nothing else happened.
C2_Witness == Undisturbed /\ obs.peds = 0 /\ obs.ticks = 12 /\ GreenOnly(t_light)

IsTick == obs'.ticks = obs.ticks + 1
IsPedEvent == obs'.peds = obs.peds + 1

\* C3 (SpecTrace): with no toggle event, a pedestrian request accepted during a
\* green or yellow phase changes no output until the first tick whose
\* cycle_count mod 6 is 4 or 5, and that tick consumes it (ped_crossing true,
\* ped_requested false); each of the 5 ticks after the consuming tick shows red
\* and yellow on and green off, and the 6th sets green only, cycle_count 0 and
\* ped_crossing false.
C3_Crossing ==
    [][/\ IsPedEvent => Shown(t_light') = Shown(t_light)
       /\ (IsTick /\ Undisturbed /\ obs.pending) =>
            IF CRem(t_light'.cycle_count, 6) \in {4, 5}
            THEN t_light'.ped_crossing /\ ~t_light'.ped_requested
            ELSE /\ t_light'.ped_requested /\ ~t_light'.ped_crossing
                 /\ Shown(t_light') =
                      IF CRem(t_light'.cycle_count, 6) = 3 THEN "yellow" ELSE "green"
       /\ (IsTick /\ Undisturbed /\ obs.cross_age \in 0..4) =>
            RedYellow(t_light') /\ t_light'.ped_crossing
       /\ (IsTick /\ Undisturbed /\ obs.cross_age = 5) =>
            /\ GreenOnly(t_light')
            /\ t_light'.cycle_count = 0
            /\ ~t_light'.ped_crossing
      ]_vars

\* C3 witness: a crossing begun by a request accepted during green or yellow has
\* just completed.
C3_Witness ==
    /\ Undisturbed /\ obs.crossed /\ obs.cross_age = -1
    /\ GreenOnly(t_light) /\ t_light.cycle_count = 0

\* C6 (SpecTrace): of the first two toggle events since start-up, the second
\* results in no further transition when it arrives less than 250 ms after the
\* first (one transition in all) and in a second transition otherwise; each
\* transition moves the mode Normal -> FlashingRed -> FlashingYellow -> Normal.
C6_TwoToggles ==
    /\ Len(obs.toggle_log) >= 2 =>
         LET first == obs.toggle_log[1]
             second == obs.toggle_log[2]
             transitions == (IF first.mode # NORMAL THEN 1 ELSE 0)
                            + (IF second.mode # first.mode THEN 1 ELSE 0)
         IN transitions =
              IF second.at - first.at < msecs_to_jiffies(DEBOUNCE_MS) THEN 1 ELSE 2
    /\ \A i \in 1..Len(obs.toggle_log) :
         LET before == IF i = 1 THEN NORMAL ELSE obs.toggle_log[i - 1].mode
         IN obs.toggle_log[i].mode \in {before, NextMode(before)}

\* C9 (Spec): after every tick and every handler call ped_requested and
\* ped_crossing are not both true, also when a pedestrian event arrives during
\* a crossing.
C9_NotBoth == ~(t_light.ped_requested /\ t_light.ped_crossing)

\* C10 (Spec): 0 <= ped_cycle_count <= 4 in every reachable state.
C10_PedCycleRange == t_light.ped_cycle_count \in 0..4

IsWrite == call'.fn = "mytraffic_write" /\ jiffies' = jiffies

\* The rate a text asks for, read as a decimal integer after white space: its
\* value when that is 1 to 9, and 0 when it is any other number or no number.
RECURSIVE SkipZeros(_, _, _)
SkipZeros(s, i, j) == IF i < j /\ CharAt(s, i) = "0" THEN SkipZeros(s, i + 1, j) ELSE i

RateAsked(buf) ==
    LET from == SkipSpaces(buf, 1)
        to == DigitsEnd(buf, from)
        digit == SkipZeros(buf, from, to)
    IN IF digit + 1 = to THEN DigitVal(CharAt(buf, digit)) ELSE 0

\* C7 (SpecIO): rate_hz is 1 after initialisation and always in 1..9; a write
\* the device accepts sets rate_hz to the integer of its text when that is in
\* 1..9, and leaves rate_hz unchanged when the integer is out of range or the
\* text is no integer.
C7_RateWrites ==
    /\ t_light.rate = 1
    /\ [][/\ t_light'.rate \in 1..9
          /\ (IsWrite /\ call'.ret >= 0) =>
                t_light'.rate = IF RateAsked(call'.buf) \in 1..9
                                THEN RateAsked(call'.buf) ELSE t_light.rate
         ]_vars

C4_OneAtATime ==
    Cardinality({e \in {"tick", "read", "toggle"} : exec[e] # "idle"}) <= 1

\* C5 (SpecSMP): no partial update of a tick is observable: the lights a status
\* read has collected are a combination that completed ticks produce (never
\* yellow+green, red+green or all three), and a tick that completes in a
\* flashing mode has left green off.
C5_NoPartialUpdate ==
    /\ exec.read = "126" => Shown(exec.snap) # "invalid"
    /\ (exec.tick = "254" /\ t_light.current_mode # NORMAL) => ~t_light.green_active

\* C11 (Spec): in the initial state and after every tick and every handler
\* call, ped_cycle_count # 0 implies ped_crossing; the initial state has mode
\* Normal, green on alone, rate 1, both counters zero and both pedestrian flags
\* false.
C11_CountOnlyWhileCrossing ==
    /\ t_light.ped_cycle_count # 0 => t_light.ped_crossing
    /\ call.fn = "mytraffic_init" =>
         /\ t_light.current_mode = NORMAL /\ GreenOnly(t_light) /\ t_light.rate = 1
         /\ t_light.cycle_count = 0 /\ t_light.ped_cycle_count = 0
         /\ ~t_light.ped_requested /\ ~t_light.ped_crossing

\* C12 (Spec): after every tick and every handler call, in mode FlashingRed or
\* FlashingYellow at most one of red, yellow, green is on; in particular right
\* after an accepted toggle, whatever the outputs were before it.
C12_FlashingAtMostOne ==
    t_light.current_mode # NORMAL =>
        Cardinality({f \in {"red_active", "yellow_active", "green_active"} :
                       t_light[f]}) <= 1

IsAcceptedToggle ==
    /\ Len(obs'.toggle_log) = Len(obs.toggle_log) + 1
    /\ t_light'.current_mode # t_light.current_mode

\* C13 (SpecTrace): every accepted toggle resets cycle_count to 0; the first
\* tick completed after an accepted toggle into FlashingRed (FlashingYellow)
\* turns red (yellow) on, and while the mode stays each following tick inverts
\* that lamp; the other two lamps are off after every such tick.
C13_FlashRestarts ==
    [][/\ IsAcceptedToggle => t_light'.cycle_count = 0
       /\ (IsTick /\ t_light.current_mode = FLASHING_RED) =>
            /\ ~t_light'.yellow_active /\ ~t_light'.green_active
            /\ t_light'.red_active =
                 IF t_light.cycle_count = 0 THEN TRUE ELSE ~t_light.red_active
       /\ (IsTick /\ t_light.current_mode = FLASHING_YELLOW) =>
            /\ ~t_light'.red_active /\ ~t_light'.green_active
            /\ t_light'.yellow_active =
                 IF t_light.cycle_count = 0 THEN TRUE ELSE ~t_light.yellow_active
      ]_vars

\* C13 witness: two toggles were accepted and the second tick since the one into
\* FlashingYellow has turned yellow off again.
C13_Witness ==
    /\ t_light.current_mode = FLASHING_YELLOW /\ t_light.cycle_count = 2
    /\ AllOff(t_light) /\ Len(obs.toggle_log) >= 2
    /\ call.fn = "timer_callback"

IsRead == call'.fn = "mytraffic_read" /\ jiffies' = jiffies

\* The report the state l is to give, one field per line.
ReportLines(l) ==
    <<[NORMAL |-> "Mode: normal", FLASHING_RED |-> "Mode: flashing-red",
       FLASHING_YELLOW |-> "Mode: flashing-yellow"][l.current_mode],
      "Cycle Rate: " \o <<"1", "2", "3", "4", "5", "6", "7", "8", "9">>[l.rate] \o " Hz",
      "Lights: red " \o (IF l.red_active THEN "on" ELSE "off")
        \o ", yellow " \o (IF l.yellow_active THEN "on" ELSE "off")
        \o ", green " \o (IF l.green_active THEN "on" ELSE "off"),
      IF l.ped_requested \/ l.ped_crossing
      THEN "Pedestrian: present" ELSE "Pedestrian: not present">>

Report(l) ==
    LET lines == ReportLines(l)
    IN lines[1] \o "\n" \o lines[2] \o "\n" \o lines[3] \o "\n" \o lines[4] \o "\n"

InitialReport ==
    "Mode: normal\nCycle Rate: 1 Hz\nLights: red off, yellow off, green on\nPedestrian: not present\n"

\* C14 (Spec): a status read changes no field of the state; the text a read of
\* the whole report returns is, in the initial state, exactly InitialReport and,
\* in every reachable state, the report whose mode, rate and light fields are
\* the current ones and whose pedestrian field is 'present' if and only if
\* ped_requested or ped_crossing is true.
C14_StatusProjection ==
    [][IsRead =>
        /\ UNCHANGED <<t_light, timer_delay, toggle_recent, ped_recent>>
        /\ call'.ret > 0 =>
             /\ call'.ret = Len(Report(t_light))
             /\ call'.buf = Report(t_light)
        /\ (call'.ret > 0 /\ call.fn = "mytraffic_init") => call'.buf = InitialReport
      ]_vars

\* C14 witness: the whole report was read during a crossing, with no request
\* pending, and says the pedestrian is present.
C14_Witness ==
    /\ call.fn = "mytraffic_read" /\ call.ret = Len(call.buf) /\ call.ret > 0
    /\ t_light.ped_crossing /\ ~t_light.ped_requested
    /\ SubSeq(call.buf, call.ret - 19, call.ret) = "Pedestrian: present\n"

Reverse(s) == [i \in 1..Len(s) |-> s[Len(s) + 1 - i]]

\* C15 (SpecLoad): when any request of mytraffic_init (an output pin, a button
\* pin, a button interrupt) is refused, init returns a failure code, not 0, and
\* does not start the timer.
C15_InitFailsOnDenied ==
    kernel.denied # {} =>
        /\ kernel.result # "zero"
        /\ kernel.timer = "off" /\ ~kernel.callback

\* C16 (SpecLoad): when mytraffic_init has returned a failure, everything it
\* acquired before the refused request has been released, in the reverse of the
\* order of acquisition, and no interrupt handler is left registered.
C16_UnwindInReverse ==
    kernel.pc = "failed" =>
        /\ kernel.released = Reverse(kernel.held)
        /\ kernel.irqs = {}

TimerStopped == (kernel.pc = "exit" /\ kernel.at > 1) \/ kernel.pc = "gone"
OutputsCleared == (kernel.pc = "exit" /\ kernel.at > 4) \/ kernel.pc = "gone"
StateFreed == kernel.pc \in {"exit", "gone"} /\ \E i \in 1..Len(kernel.released) :
                                                  kernel.released[i] = "t_light"

\* C17 (SpecLoad): once mytraffic_exit has stopped the timer, the timer is
\* never pending again and no callback runs or changes the state or the pins;
\* from exit's clearing of the outputs on, the pins are all off; and when the
\* struct is freed neither the timer nor a button interrupt can invoke a
\* handler on it any more.
C17_ExitQuiesces ==
    /\ [](TimerStopped => (kernel.timer = "off" /\ ~kernel.callback))
    /\ [](OutputsCleared => kernel.pins = [red |-> FALSE, yellow |-> FALSE,
                                           green |-> FALSE])
    /\ [](StateFreed => (kernel.timer = "off" /\ ~kernel.callback /\ kernel.irqs = {}))
    /\ [][TimerStopped =>
            /\ call'.fn # "timer_callback" \/ t_light' = t_light
            /\ TimerStopped']_vars

\* C17 witness: the module is gone after ticks that left red on in the struct,
\* and the pins are off.
C17_Witness ==
    /\ kernel.pc = "gone" /\ RedOnly(t_light) /\ t_light.cycle_count > 0
    /\ kernel.pins = [red |-> FALSE, yellow |-> FALSE, green |-> FALSE]

PedFields(l) == <<l.ped_requested, l.ped_crossing, l.ped_cycle_count>>

\* C18 (Spec): an accepted pedestrian request is served by a crossing begun
\* after it: while the mode stays Normal, ped_requested, once set (also during
\* a crossing in progress), is cleared only by a tick that begins a crossing
\* (ped_crossing goes from false to true).
C18_RequestServed ==
    [][(/\ t_light.current_mode = NORMAL /\ t_light'.current_mode = NORMAL
        /\ t_light.ped_requested /\ ~t_light'.ped_requested)
       => (~t_light.ped_crossing /\ t_light'.ped_crossing)]_vars

\* C19 (SpecTrace): an accepted toggle changes mode and cycle_count only; no
\* step that begins or ends in a flashing mode (the toggle out of Normal, the
\* ticks and events while flashing, the toggle back to Normal) changes
\* ped_requested, ped_crossing or ped_cycle_count; and the first tick after
\* the return to Normal continues a crossing from the ped_cycle_count it has.
C19_ToggleFrame ==
    [][/\ IsAcceptedToggle =>
            [t_light' EXCEPT !.current_mode = NORMAL, !.cycle_count = 0]
              = [t_light EXCEPT !.current_mode = NORMAL, !.cycle_count = 0]
       /\ (t_light.current_mode # NORMAL \/ t_light'.current_mode # NORMAL) =>
            /\ PedFields(t_light') = PedFields(t_light)
            /\ t_light'.rate = t_light.rate
       /\ (IsTick /\ t_light.current_mode = NORMAL /\ t_light.ped_crossing
             /\ t_light.ped_cycle_count < PED_CYCLES) =>
            /\ t_light'.ped_cycle_count = t_light.ped_cycle_count + 1
            /\ t_light'.ped_crossing /\ RedYellow(t_light')
      ]_vars

\* C19 witness: a crossing was in progress through three accepted toggles, out
\* of Normal and back, and the first tick after the return has advanced it.
C19_Witness ==
    /\ Len(obs.toggle_log) = 3 /\ obs.toggle_log[1].mode = FLASHING_RED
    /\ obs.toggle_log[2].mode = FLASHING_YELLOW /\ obs.toggle_log[3].mode = NORMAL
    /\ t_light.current_mode = NORMAL /\ t_light.ped_crossing
    /\ t_light.ped_cycle_count = 3 /\ t_light.cycle_count = 1
    /\ call.fn = "timer_callback"

PhaseLights == <<"green", "green", "green", "yellow", "red", "red">>

\* C20 (SpecWrap): with no toggle event and no crossing, every tick, the one
\* that wraps cycle_count included, moves the Normal phase cycle_count mod 6 to
\* its successor in green, green, green, yellow, red, red and shows that phase,
\* and in a flashing mode inverts the lamp of the mode with the other two off.
C20_WrapContinues ==
    [][t_light' # t_light =>
        CASE t_light.current_mode = NORMAL ->
               /\ CRem(t_light'.cycle_count, CYCLE_LEN)
                    = (CRem(t_light.cycle_count, CYCLE_LEN) + 1) % CYCLE_LEN
               /\ Shown(t_light')
                    = PhaseLights[CRem(t_light'.cycle_count, CYCLE_LEN) + 1]
          [] t_light.current_mode = FLASHING_RED ->
               /\ t_light'.red_active = ~t_light.red_active
               /\ ~t_light'.yellow_active /\ ~t_light'.green_active
          [] t_light.current_mode = FLASHING_YELLOW ->
               /\ t_light'.yellow_active = ~t_light.yellow_active
               /\ ~t_light'.red_active /\ ~t_light'.green_active
      ]_vars

====
